---- MODULE Spec2Model ----
(***************************************************************************)
(* Model of the chat session of mcp-terminal: startChatSession (the chat   *)
(* command), connectToAllServers / McpConnection (utils/mcpConnection.ts)  *)
(* and callLLM (utils/llmClient.ts).                                       *)
(*                                                                         *)
(* The session is one thread of control; every action below is the code    *)
(* that runs from one await to the next.  The environment (configuration,  *)
(* API keys, which servers answer) is fixed in Init; what the remote       *)
(* parties answer (tool listings, model replies, tool results) is chosen   *)
(* with \E when the answer arrives.                                        *)
(*                                                                         *)
(* Spec and SpecLong are the chat session under two exploration limits,    *)
(* SpecCall is callLLM over a catalog and a connection list given as       *)
(* arguments, SpecInterrupt is the chat session with interrupt signals,    *)
(* SpecFair is the chat session whose awaited replies do arrive, and       *)
(* SpecStart is the start command, whose handlers are async callbacks,     *)
(* SpecConfig is a ConfigManager over a configuration file and             *)
(* SpecConnection is one McpConnection whose methods are called in turn.   *)
(***************************************************************************)
EXTENDS Integers, Sequences, FiniteSets, TLC

\* ------------------------------------------------------------------ bounds
MaxTurns == 1        \* non-exit user inputs per session
MaxBatch == 2        \* tool calls in one model reply
LongTurns == 2       \* non-exit user inputs of a session with short batches
ShortBatch == 1      \* tool calls in one model reply of such a session

\* ------------------------------------------------------- small input sets
ConfigOrder == <<"serverA", "serverB">>      \* Object.keys(mcpServers)
ServerSet == {"serverA", "serverB"}
ToolNames == {"search", "read"}
ToolOrder == <<"search", "read">>
CallIds == {"abc", "call_1", "call_2"}
CallIdOrder == <<"abc", "call_1", "call_2">>   \* the ids a reply gives its calls
GoodArgs == "{q:1}"
BadArgs == "{q:"
ArgPayloads == {GoodArgs, BadArgs}
UserInputs == {"exit", "QUIT", "Quit", "hi"}
ReplyContents == {"Hello"}
Null == "<null>"
ToolResults == {[isObject |-> TRUE, text |-> "result:42"]}
ModelFailures == {"fetch rejected", "status not ok", "no choices"}
ListFailures == {"-32601", "other"}

SystemPrompt == "You're an AI assistant powered by MCP."
ErrorMessage == "I'm sorry, I encountered an error processing your request. Please try again."

\* ---------------------------------------------------------- pure helpers
RECURSIVE SeqToSet(_)
SeqToSet(s) == IF s = <<>> THEN {} ELSE {Head(s)} \cup SeqToSet(Tail(s))

Prefixes(s) == {SubSeq(s, 1, n) : n \in 0..Len(s)}

\* the subsequences of s
RECURSIVE SubSeqs(_)
SubSeqs(s) ==
  IF s = <<>> THEN {<<>>}
  ELSE LET rest == SubSeqs(Tail(s)) IN rest \cup {<<Head(s)>> \o r : r \in rest}

\* String.prototype.toLowerCase on the inputs above
ToLowerCase(s) ==
  CASE s = "QUIT" -> "quit"
    [] s = "Quit" -> "quit"
    [] s = "EXIT" -> "exit"
    [] s = "Exit" -> "exit"
    [] OTHER -> s

\* JSON.parse(toolCall.function.arguments)
JSONParse(p) ==
  IF p = GoodArgs THEN [ok |-> TRUE, value |-> "q=1"]
  ELSE [ok |-> FALSE, value |-> "SyntaxError"]

\* ParseToolArgs whose catch leaves toolArgs unset
ParseToolArgsUnset(p) ==
  IF JSONParse(p).ok THEN JSONParse(p).value ELSE "undefined"

\* toolArgs after the first try/catch of the loop body
ParseToolArgs(p) ==
  IF JSONParse(p).ok THEN JSONParse(p).value
  ELSE "_error=Failed to parse arguments"

\* typeof toolResult === "object" ? JSON.stringify(toolResult) : String(toolResult)
SerializeResult(r) == IF r.isObject THEN "{" \o r.text \o "}" ELSE r.text

\* JSON.stringify({ error: error.message })
ErrorPayload(msg) == "{error:" \o msg \o "}"

\* error.message of the failures the dispatch loop can catch
ToolNotFoundMsg(toolName) == "Tool " \o toolName \o " not found"
NoServerNameMsg(toolName) == "No server name found for tool " \o toolName
NoConnectionMsg(serverName) == "No connection found for server " \o serverName
NotConnectedMsg == "MCP client is not connected"
NotOnServerMsg(toolName, serverName) ==
  "Tool " \o toolName \o " not found on server " \o serverName
TimeoutMsg == "Request timed out"
CallFailures == {"-32601", "timeout"}

\* msg.role === "system" || "user" || "assistant" ? msg.role : "user"
FormatRole(role) ==
  IF role \in {"system", "user", "assistant"} THEN role ELSE "user"

\* history.map(...) at the top of callLLM; the contents of the chat history
\* are strings, which the map leaves as they are
FormatMessages(h) ==
  [k \in 1..Len(h) |-> [role |-> FormatRole(h[k].role), content |-> h[k].content]]

\* mcpTools.map(...) into function declarations (description and parameter
\* schema are carried along unchanged and are left out)
FormatTools(tools) ==
  [k \in 1..Len(tools) |-> [type |-> "function", name |-> tools[k].name]]

\* Array.prototype.find as the index of the first match, 0 for undefined
FirstIndex(M) == IF M = {} THEN 0 ELSE CHOOSE k \in M : \A j \in M : k <= j

\* mcpTools.find((t) => t.name === toolName)
FindTool(tools, toolName) ==
  FirstIndex({k \in 1..Len(tools) : tools[k].name = toolName})

\* mcpConnections.find((c) => c.getServerName() === serverName)
FindConnection(conns, serverName) ==
  FirstIndex({k \in 1..Len(conns) : conns[k] = serverName})

\* Route with an unknown tool sent to the first connection instead of failing
RouteFallback(tools, conns, toolName) ==
  LET t == FindTool(tools, toolName) IN
  IF t = 0 THEN [found |-> TRUE, server |-> conns[1], error |-> ""]
  ELSE IF FindConnection(conns, tools[t].serverName) = 0
  THEN [found |-> FALSE, server |-> tools[t].serverName,
        error |-> NoConnectionMsg(tools[t].serverName)]
  ELSE [found |-> TRUE, server |-> tools[t].serverName, error |-> ""]

\* Route that sends every known tool to the first connection
RouteToFirstConnection(tools, conns, toolName) ==
  LET t == FindTool(tools, toolName) IN
  IF t = 0 THEN [found |-> FALSE, server |-> "", error |-> ToolNotFoundMsg(toolName)]
  ELSE IF FindConnection(conns, tools[t].serverName) = 0
  THEN [found |-> FALSE, server |-> tools[t].serverName,
        error |-> NoConnectionMsg(tools[t].serverName)]
  ELSE [found |-> TRUE, server |-> conns[1], error |-> ""]

\* Route without the check of the connection lookup
RouteUnchecked(tools, conns, toolName) ==
  LET t == FindTool(tools, toolName) IN
  IF t = 0 THEN [found |-> FALSE, server |-> "", error |-> ToolNotFoundMsg(toolName)]
  ELSE IF tools[t].serverName = ""
  THEN [found |-> FALSE, server |-> "", error |-> NoServerNameMsg(toolName)]
  ELSE [found |-> TRUE, server |-> tools[t].serverName, error |-> ""]

\* the lookups of the second try block, up to the call of connection.callTool:
\* either the connection to call or the Error that is thrown
Route(tools, conns, toolName) ==
  LET t == FindTool(tools, toolName) IN
  IF t = 0 THEN [found |-> FALSE, server |-> "", error |-> ToolNotFoundMsg(toolName)]
  ELSE LET serverName == tools[t].serverName IN
    IF serverName = ""
    THEN [found |-> FALSE, server |-> "", error |-> NoServerNameMsg(toolName)]
    ELSE IF FindConnection(conns, serverName) = 0
    THEN [found |-> FALSE, server |-> serverName, error |-> NoConnectionMsg(serverName)]
    ELSE [found |-> TRUE, server |-> conns[FindConnection(conns, serverName)], error |-> ""]

\* an awaited call to a remote party
RemoteCall(kind, target) == kind \o ":" \o target

\* the catch block of McpConnection.callTool: the Error that is rethrown
CallToolError(failure, toolName, serverName) ==
  IF failure = "-32601" THEN NotOnServerMsg(toolName, serverName) ELSE TimeoutMsg

\* the tool-result message pushed by the try block / by the catch block
ToolMessage(id, content) == [role |-> "tool", tool_call_id |-> id, content |-> content]

\* ToolCallRequestMessage that leaves the requested calls out
ToolCallRequestMessageBare(calls) == [role |-> "assistant", content |-> Null, tool_calls |-> <<>>]

\* the assistant message that opens updatedMessages
ToolCallRequestMessage(calls) == [role |-> "assistant", content |-> Null, tool_calls |-> calls]

\* `Tools used:\n${result}\n${content || ""}`; the per-call feedback lines of
\* `result` are display text and are not spelled out
ToolsUsedText(content) == "Tools used: " \o (IF content = Null THEN "" ELSE content)

\* PlainText with the displayed line stored instead of the reply
PlainTextDisplayed(content) == "AI: " \o (IF content = Null THEN "" ELSE content)

\* content || ""
PlainText(content) == IF content = Null THEN "" ELSE content

\* ------------------------------------------------------------ input sets
ToolCalls == [id : CallIds, name : ToolNames, arguments : ArgPayloads]

\* the tool_calls of a model reply: call ids are unique within a reply; they
\* are opaque to the program, so one numbering of a reply's calls stands for
\* all of them
Batches ==
  {b \in UNION {[1..n -> ToolCalls] : n \in 1..MaxBatch} :
     \A a \in DOMAIN b : b[a].id = CallIdOrder[a]}

\* what client.listTools() of the SDK answers: a failure, or the tool names
\* (a server lists a name at most once)
ListOutcomes ==
  {[failure |-> f, tools |-> <<>>] : f \in ListFailures} \cup
  {[failure |-> "", tools |-> t] : t \in SubSeqs(ToolOrder)}

\* no fetch is in flight
NoRequest == [messages |-> <<>>, tools |-> <<>>]

\* ----------------------------------------------------------------- state
VARIABLES
  limits,           \* exploration limits: user turns, tool calls per reply
  hasApiKey,        \* environment: the result of checkOpenAIKey()
  apiKey,           \* environment: callLLM finds the key of its provider
  serverNames,      \* environment: Object.keys(configManager.getServers())
  reachable,        \* environment: servers whose transport can be connected
  pc,               \* where startChatSession stands
  i,                \* index of the for..of loop in progress
  userInput,        \* startChatSession: userInput, the line read last
  history,          \* startChatSession: history
  connections,      \* startChatSession: connections (server names)
  client,           \* McpConnection.client is non-null, per server
  allTools,         \* startChatSession: allTools
  toolToServerMap,  \* startChatSession: toolToServerMap
  listings,         \* log: what listTools() returned, per connection
  listFailures,     \* log: how each listing failed ("" if not), until the first input
  turns,            \* non-exit inputs so far
  updatedMessages,  \* callLLM: updatedMessages
  toolCalls,        \* callLLM: toolCalls of the first reply
  tc,               \* callLLM: position of the for..of loop over toolCalls
  request,          \* the model request in flight, NoRequest if none
  sent,             \* log: number of model requests sent in this turn
  dispatched,       \* log: the callTool invocations of the running callLLM
  called,           \* log: number of callTool invocations in this turn
  replies,          \* log: the model replies received in this turn
  pending,          \* log: the remote calls started and not yet returned
  start,            \* the start command: its connections, handlers and readline
  file,             \* ~/.mcp/config.json as the ConfigManager under study finds it
  mcp               \* the McpConnection under study and the outcome of its last call

\* what the chat command never writes: its environment and the start command
env == <<limits, hasApiKey, apiKey, serverNames, reachable, start, file, mcp>>
startup == <<connections, client, allTools, toolToServerMap, listings, listFailures>>
llm == <<updatedMessages, toolCalls, tc, request, sent, dispatched, called, replies>>
vars == <<env, pc, i, userInput, history, startup, turns, llm, pending>>

\* the state when the chat command is entered, in any environment
InitSession ==
  /\ hasApiKey \in BOOLEAN
  /\ apiKey \in BOOLEAN
  /\ serverNames \in Prefixes(ConfigOrder)
  /\ reachable \in SUBSET SeqToSet(serverNames)
  /\ pc = "Idle"
  /\ i = 1
  /\ userInput = ""
  /\ history = <<>>
  /\ connections = <<>>
  /\ client = [s \in ServerSet |-> FALSE]
  /\ allTools = <<>>
  /\ toolToServerMap = <<>>
  /\ listings = <<>>
  /\ listFailures = <<>>
  /\ turns = 0
  /\ updatedMessages = <<>>
  /\ toolCalls = <<>>
  /\ tc = 1
  /\ request = NoRequest
  /\ sent = 0
  /\ dispatched = <<>>
  /\ called = 0
  /\ replies = <<>>
  /\ pending = {}

\* the start command is not run
NotStarted == [status |-> "off"]

\* no ConfigManager and no McpConnection is under study
NoFile == [text |-> "off"]
NoMcp == [status |-> "off"]

\* a session of few turns with long batches
Init ==
  /\ InitSession
  /\ limits = [turns |-> MaxTurns, batch |-> MaxBatch]
  /\ start = NotStarted
  /\ file = NoFile
  /\ mcp = NoMcp

\* a session of more turns with short batches
InitLong ==
  /\ InitSession
  /\ limits = [turns |-> LongTurns, batch |-> ShortBatch]
  /\ start = NotStarted
  /\ file = NoFile
  /\ mcp = NoMcp

\* ConnectSucceeds after which no server connects once one has failed
ConnectSucceedsUntilFailure(s) ==
  /\ s \in reachable
  /\ \A k \in DOMAIN serverNames : serverNames[k] \in reachable \/ serverNames[k] = s \/
       \E j \in DOMAIN serverNames : j < k /\ serverNames[j] = s

\* --------------------------------------------------------------- startup
\* McpConnection.connect() of a configured server (one with a command or a
\* url): new Client(...) is assigned before the transport is connected, and
\* a transport failure is returned as success false
ConnectSucceeds(s) == s \in reachable

\* NoServerConnected without the check
NoServerConnectedIgnored(conns) == FALSE

\* NoServerConnected that gives up as soon as one server failed
NoServerConnectedAny(conns) == Len(conns) < Len(serverNames)

\* connections.length === 0 after connectToAllServers
NoServerConnected(conns) == Len(conns) = 0

\* startChatSession up to the first await inside connectToAllServers
StartChatSession ==
  /\ pc = "Idle"
  /\ IF ~hasApiKey
     THEN /\ pc' = "NoApiKey"
          /\ UNCHANGED history
     ELSE /\ history' = <<[role |-> "system", content |-> SystemPrompt]>>
          /\ pc' = IF Len(serverNames) = 0 THEN "NoConnections" ELSE "Connecting"
  /\ pending' = IF hasApiKey /\ Len(serverNames) > 0
                THEN {RemoteCall("connect", serverNames[1])} ELSE {}
  /\ UNCHANGED <<env, i, userInput, startup, turns, llm>>

\* one iteration of the loop of connectToAllServers; after the last one the
\* connections.length check of startChatSession
Connect ==
  /\ pc = "Connecting"
  /\ LET s == serverNames[i]
         conns == IF ConnectSucceeds(s) THEN Append(connections, s) ELSE connections
     IN /\ connections' = conns
        /\ client' = [client EXCEPT ![s] = TRUE]
        /\ IF i < Len(serverNames)
           THEN /\ i' = i + 1
                /\ pending' = {RemoteCall("connect", serverNames[i + 1])}
                /\ UNCHANGED pc
           ELSE /\ i' = 1
                /\ pending' = IF NoServerConnected(conns) THEN {}
                              ELSE {RemoteCall("listTools", conns[k]) : k \in {1} \cap DOMAIN conns}
                /\ pc' = IF NoServerConnected(conns) THEN "NoConnections" ELSE "FetchingTools"
  /\ UNCHANGED <<env, userInput, history, allTools, toolToServerMap, listings, listFailures,
                 turns, llm>>

\* McpConnection.listTools(): null without a client and on any failure
ListToolsIsNull(s, answer) == ~client[s] \/ answer.failure # ""

ListTools(s, answer) == IF ListToolsIsNull(s, answer) THEN <<>> ELSE answer.tools

\* ListToolsThrows whose catch returns null on method-not-found only
ListToolsThrowsOther(s, answer) == client[s] /\ answer.failure = "other"

\* listTools() rejects: never, its catch returns null whatever the error is
ListToolsThrows(s, answer) == FALSE

\* why listTools() of server s returned null, "" if it returned a list
ListFailure(s, answer) == IF ~client[s] THEN "no client" ELSE answer.failure

\* MappedTools that tags every tool with the first connection
MappedToolsFirstOwner(serverTools, serverName) ==
  [k \in 1..Len(serverTools) |-> [name |-> serverTools[k], serverName |-> connections[1]]]

\* serverTools.map(...): the tools of one server tagged with its name
MappedTools(serverTools, serverName) ==
  [k \in 1..Len(serverTools) |-> [name |-> serverTools[k], serverName |-> serverName]]

\* toolToServerMap.set(tool.name, serverName) for every tool of the server
SetAll(map, serverTools, serverName) ==
  [n \in DOMAIN map \cup SeqToSet(serverTools) |->
     IF n \in SeqToSet(serverTools) THEN serverName ELSE map[n]]

\* one iteration of the tool-fetching loop; after the last one the chat loop
\* is entered and the first prompt is issued
FetchTools ==
  /\ pc = "FetchingTools"
  /\ \E answer \in ListOutcomes :
       LET serverName == connections[i]
           serverTools == ListTools(serverName, answer)
       IN /\ listFailures' = Append(listFailures, ListFailure(serverName, answer))
          /\ IF ListToolsThrows(serverName, answer)
             THEN /\ pc' = "Exit1"
                  /\ pending' = {}
                  /\ UNCHANGED <<i, allTools, toolToServerMap, listings>>
             ELSE /\ listings' = Append(listings, serverTools)
                  /\ IF ~ListToolsIsNull(serverName, answer) /\ Len(serverTools) > 0
                     THEN /\ toolToServerMap' = SetAll(toolToServerMap, serverTools, serverName)
                          /\ allTools' = allTools \o MappedTools(serverTools, serverName)
                     ELSE UNCHANGED <<allTools, toolToServerMap>>
                  /\ IF i < Len(connections)
                     THEN /\ i' = i + 1
                          /\ pending' = {RemoteCall("listTools", connections[i + 1])}
                          /\ UNCHANGED pc
                     ELSE /\ i' = 1
                          /\ pending' = {}
                          /\ pc' = "AwaitingUserInput"
  /\ UNCHANGED <<env, userInput, history, connections, client, turns, llm>>

\* IsExitCommand that compares the line as typed
IsExitCommandCaseSensitive(line) == line = "exit" \/ line = "quit"

\* ------------------------------------------------------------- chat loop
\* userInput.toLowerCase() === "exit" || userInput.toLowerCase() === "quit"
IsExitCommand(line) ==
  ToLowerCase(line) = "exit" \/ ToLowerCase(line) = "quit"

\* Apology that only logs the error
ApologyDropped(h) == h

\* Apology that puts the error message in place of the last message
ApologyOverwriting(h) ==
  [h EXCEPT ![Len(h)] = [role |-> "assistant", content |-> ErrorMessage]]

\* the catch block of the chat loop
Apology(h) == Append(h, [role |-> "assistant", content |-> ErrorMessage])

\* Respond that also stores the tool-result messages of the round
RespondWithOutcomes(h, response) ==
  LET IsTool(m) == m.role = "tool"
  IN h \o SelectSeq(updatedMessages, IsTool)
       \o <<[role |-> "assistant", content |-> response]>>

\* Respond that does not store an empty response
RespondSkippingEmpty(h, response) ==
  IF response = "" THEN h ELSE Append(h, [role |-> "assistant", content |-> response])

\* history.push({ role: "assistant", content: response })
Respond(h, response) == Append(h, [role |-> "assistant", content |-> response])

\* requestBody of the first request: tools only if mcpTools.length > 0
FirstRequest(h, tools) == [messages |-> FormatMessages(h), tools |-> FormatTools(tools)]

\* FollowupRequest that sends the tool declarations again
FollowupRequestWithTools(messages) ==
  [messages |-> messages, tools |-> [k \in 1..Len(allTools) |-> [type |-> "function", name |-> allTools[k].name]]]

\* body of the follow-up request: model, messages, temperature
FollowupRequest(messages) == [messages |-> messages, tools |-> <<>>]

\* a line is read at the prompt: the exit check, or history.push of the user
\* message and callLLM up to its first fetch (without an API key callLLM
\* throws at once and the catch of the loop answers).  The logs of the turn
\* before, and the log of the listing failures, are cleared.
UserInput ==
  /\ pc = "AwaitingUserInput"
  /\ \E line \in UserInputs :
       /\ userInput' = line
       /\ IF IsExitCommand(line)
          THEN /\ pc' = "Disconnecting"
               /\ i' = 1
               /\ pending' = IF connections = <<>> THEN {}
                             ELSE {RemoteCall("disconnect", connections[1])}
               /\ sent' = 0
               /\ called' = 0
               /\ replies' = <<>>
               /\ UNCHANGED <<history, turns, updatedMessages, toolCalls, tc, request, dispatched>>
          ELSE /\ turns < limits.turns
               /\ turns' = turns + 1
               /\ i' = i
               /\ called' = 0
               /\ replies' = <<>>
               /\ LET h == Append(history, [role |-> "user", content |-> line])
                  IN IF ~apiKey
                     THEN /\ history' = Apology(h)
                          /\ sent' = 0
                          /\ pending' = {}
                          /\ UNCHANGED <<pc, request>>
                     ELSE /\ history' = h
                          /\ request' = FirstRequest(h, allTools)
                          /\ sent' = 1
                          /\ pending' = {RemoteCall("model", "first")}
                          /\ pc' = "AwaitingModelResponse"
               /\ UNCHANGED <<updatedMessages, toolCalls, tc, dispatched>>
  /\ listFailures' = <<>>
  /\ UNCHANGED <<env, connections, client, allTools, toolToServerMap, listings>>

\* DispatchStarts of a loop that starts the calls of the batch together
DispatchStartsAll(calls, k) ==
  {RemoteCall("callTool", calls[j].id) :
     j \in {j \in k..Len(calls) :
              /\ Route(allTools, connections, calls[j].name).found
              /\ client[Route(allTools, connections, calls[j].name).server]}}

\* the remote calls that iteration k of the loop over the tool calls starts:
\* the one awaited client.callTool, if the lookups and the client check of
\* McpConnection.callTool get that far
DispatchStarts(calls, k) ==
  IF /\ Route(allTools, connections, calls[k].name).found
     /\ client[Route(allTools, connections, calls[k].name).server]
  THEN {RemoteCall("callTool", calls[k].id)} ELSE {}

\* what a chat-completions request can end in: a failure (fetch rejects, the
\* status is not ok, the body has no choices), which is thrown whatever its
\* kind, plain content, or tool calls (with content null)
FailedReply(f) == [ok |-> FALSE, content |-> Null, tool_calls |-> <<>>]
FirstReplies ==
  {FailedReply(f) : f \in ModelFailures} \cup
  [ok : {TRUE}, content : ReplyContents \cup {Null}, tool_calls : {<<>>}] \cup
  [ok : {TRUE}, content : {Null}, tool_calls : Batches]
FollowupToolCalls == <<[id |-> "call_9", name |-> "search", arguments |-> GoodArgs]>>
FollowupReplies ==
  {FailedReply(f) : f \in ModelFailures} \cup
  [ok : {TRUE}, content : ReplyContents \cup {Null},
   tool_calls : {<<>>, FollowupToolCalls}]

\* HasToolCalls that never sees a tool call
HasToolCallsIgnored(reply) == FALSE

\* toolCalls && toolCalls.length > 0
HasToolCalls(reply) == Len(reply.tool_calls) > 0

\* the first fetch returns: a failure is thrown to the chat loop, plain content
\* is returned to it, tool calls open updatedMessages and start the loop
ModelReply ==
  /\ pc = "AwaitingModelResponse"
  /\ \E reply \in FirstReplies :
       /\ Len(reply.tool_calls) <= limits.batch
       /\ replies' = Append(replies, reply)
       /\ request' = NoRequest
       /\ IF ~reply.ok
          THEN /\ history' = Apology(history)
               /\ pc' = "AwaitingUserInput"
               /\ pending' = {}
               /\ UNCHANGED <<updatedMessages, toolCalls>>
          ELSE IF HasToolCalls(reply)
          THEN /\ toolCalls' = reply.tool_calls
               /\ pending' = DispatchStarts(reply.tool_calls, 1)
               /\ updatedMessages' =
                    Append(request.messages, ToolCallRequestMessage(reply.tool_calls))
               /\ pc' = "DispatchingTools"
               /\ UNCHANGED history
          ELSE /\ history' = Respond(history, PlainText(reply.content))
               /\ pc' = "AwaitingUserInput"
               /\ pending' = {}
               /\ UNCHANGED <<updatedMessages, toolCalls>>
  /\ UNCHANGED <<env, i, userInput, startup, turns, tc, sent, dispatched, called>>

\* what connection.callTool can end in once the client is asked
CallOutcomes ==
  {[failure |-> f, result |-> [isObject |-> FALSE, text |-> ""]] : f \in CallFailures} \cup
  {[failure |-> "", result |-> r] : r \in ToolResults}

\* ToolOutcomeMessage with the error of an earlier call of the batch kept
ToolOutcomeMessageSticky(call, route, outcome) ==
  IF \E k \in DOMAIN updatedMessages :
       /\ updatedMessages[k].role = "tool"
       /\ updatedMessages[k].content \notin {SerializeResult(r) : r \in ToolResults}
  THEN [role |-> "tool", tool_call_id |-> call.id, content |-> ErrorPayload(TimeoutMsg)]
  ELSE IF ~route.found
  THEN [role |-> "tool", tool_call_id |-> call.id, content |-> ErrorPayload(route.error)]
  ELSE IF ~client[route.server] \/ outcome.failure # ""
  THEN [role |-> "tool", tool_call_id |-> call.id, content |-> ErrorPayload(TimeoutMsg)]
  ELSE [role |-> "tool", tool_call_id |-> call.id, content |-> SerializeResult(outcome.result)]

\* ToolOutcomeMessage that answers a call with unparsable arguments with the
\* parse error, whatever callTool returned
ToolOutcomeMessageParseError(call, route, outcome) ==
  IF call.arguments = BadArgs
  THEN [role |-> "tool", tool_call_id |-> call.id,
        content |-> ErrorPayload("Failed to parse arguments")]
  ELSE IF ~route.found
  THEN [role |-> "tool", tool_call_id |-> call.id, content |-> ErrorPayload(route.error)]
  ELSE IF ~client[route.server]
  THEN [role |-> "tool", tool_call_id |-> call.id, content |-> ErrorPayload(NotConnectedMsg)]
  ELSE IF outcome.failure # ""
  THEN [role |-> "tool", tool_call_id |-> call.id,
        content |-> ErrorPayload(CallToolError(outcome.failure, call.name, route.server))]
  ELSE [role |-> "tool", tool_call_id |-> call.id, content |-> SerializeResult(outcome.result)]

\* the tool-result message of one loop iteration, given where the call was
\* routed and what callTool ended in
ToolOutcomeMessage(call, route, outcome) ==
  IF ~route.found THEN ToolMessage(call.id, ErrorPayload(route.error))
  ELSE IF ~client[route.server] THEN ToolMessage(call.id, ErrorPayload(NotConnectedMsg))
  ELSE IF outcome.failure # ""
  THEN ToolMessage(call.id, ErrorPayload(CallToolError(outcome.failure, call.name, route.server)))
  ELSE ToolMessage(call.id, SerializeResult(outcome.result))

\* PushOutcome whose catch block pushes nothing
PushOutcomeSkipOnError(messages, call, route, outcome) ==
  IF ~route.found \/ ~client[route.server] \/ outcome.failure # ""
  THEN messages
  ELSE Append(messages, ToolOutcomeMessage(call, route, outcome))

\* PushOutcome that puts the newest tool result ahead of the earlier ones
PushOutcomeFirst(messages, call, route, outcome) ==
  LET n == Cardinality({k \in DOMAIN messages : messages[k].role # "tool"})
  IN SubSeq(messages, 1, n) \o <<ToolOutcomeMessage(call, route, outcome)>>
       \o SubSeq(messages, n + 1, Len(messages))

\* PushOutcome that keeps the assistant message with the requested calls at
\* the end of the list, after the tool results
PushOutcomeAhead(messages, call, route, outcome) ==
  SubSeq(messages, 1, Len(messages) - 1)
    \o <<ToolOutcomeMessage(call, route, outcome), messages[Len(messages)]>>

\* updatedMessages.push(...) of the try block or of the catch block
PushOutcome(messages, call, route, outcome) ==
  Append(messages, ToolOutcomeMessage(call, route, outcome))

\* the record of one callTool invocation
Invocation(call, route, outcome) ==
  [server |-> route.server, name |-> call.name, args |-> ParseToolArgs(call.arguments),
   id |-> call.id, ok |-> client[route.server] /\ outcome.failure = "",
   failure |-> IF client[route.server] THEN outcome.failure ELSE "not connected"]

\* one iteration of the loop over toolCalls; after the last one the follow-up
\* request is sent
DispatchToolCall ==
  /\ pc = "DispatchingTools"
  /\ LET call == toolCalls[tc]
         route == Route(allTools, connections, call.name)
     IN \E outcome \in CallOutcomes :
          LET messages == PushOutcome(updatedMessages, call, route, outcome)
          IN /\ updatedMessages' = messages
             /\ dispatched' = IF route.found
                              THEN Append(dispatched, Invocation(call, route, outcome))
                              ELSE dispatched
             /\ called' = IF route.found THEN called + 1 ELSE called
             /\ IF tc < Len(toolCalls)
                THEN /\ tc' = tc + 1
                     /\ pending' = (pending \ {RemoteCall("callTool", call.id)})
                                      \cup DispatchStarts(toolCalls, tc + 1)
                     /\ UNCHANGED <<pc, request, sent>>
                ELSE /\ tc' = tc
                     /\ pending' = (pending \ {RemoteCall("callTool", call.id)})
                                      \cup {RemoteCall("model", "followup")}
                     /\ request' = FollowupRequest(messages)
                     /\ sent' = sent + 1
                     /\ pc' = "AwaitingFollowupResponse"
  /\ UNCHANGED <<env, i, userInput, history, startup, turns, toolCalls, replies>>

\* the follow-up fetch returns: its content ends the turn, its tool_calls
\* are not looked at
FollowupReply ==
  /\ pc = "AwaitingFollowupResponse"
  /\ \E reply \in FollowupReplies :
       /\ replies' = Append(replies, reply)
       /\ history' = IF reply.ok THEN Respond(history, ToolsUsedText(reply.content))
                     ELSE Apology(history)
  /\ pc' = "AwaitingUserInput"
  /\ pending' = pending \ {RemoteCall("model", "followup")}
  /\ request' = NoRequest
  /\ updatedMessages' = <<>>
  /\ toolCalls' = <<>>
  /\ tc' = 1
  /\ dispatched' = <<>>
  /\ UNCHANGED <<env, i, userInput, startup, turns, sent, called>>

\* --------------------------------------------------------------- teardown
\* one iteration of the clean-up loop: McpConnection.disconnect(); a close()
\* that rejects leaves startChatSession through the catch of the chat command
Disconnect ==
  /\ pc = "Disconnecting"
  /\ \E closeOk \in BOOLEAN :
       IF client[connections[i]] /\ ~closeOk
       THEN /\ pc' = "Exit1"
            /\ pending' = {}
            /\ UNCHANGED <<i, client>>
       ELSE /\ client' = [client EXCEPT ![connections[i]] = FALSE]
            /\ IF i < Len(connections)
               THEN /\ i' = i + 1
                    /\ pending' = {RemoteCall("disconnect", connections[i + 1])}
                    /\ UNCHANGED pc
               ELSE /\ i' = i
                    /\ pending' = {}
                    /\ pc' = "Closed"
  /\ UNCHANGED <<env, userInput, history, connections, allTools, toolToServerMap, listings,
                 listFailures,
                 turns, llm>>

Next ==
  \/ StartChatSession
  \/ Connect
  \/ FetchTools
  \/ UserInput
  \/ ModelReply
  \/ DispatchToolCall
  \/ FollowupReply
  \/ Disconnect

Spec == Init /\ [][Next]_vars

SpecLong == InitLong /\ [][Next]_vars

\* ================================================================ claims
\* helpers of the formulas below
ToolResultPositions(messages, id) ==
  {k \in DOMAIN messages : messages[k].role = "tool" /\ messages[k].tool_call_id = id}

ToolMessagesOf(messages) ==
  LET IsTool(m) == m.role = "tool" IN SelectSeq(messages, IsTool)

SuccessContents == {"{result:42}"}

CatalogNames == {allTools[k].name : k \in DOMAIN allTools}

\* a call of the running batch has been through the loop body
Processed(k) == k < tc \/ pc = "AwaitingFollowupResponse"

LastOf(h) == h[Len(h)]

\* ----------------------------------------------------------------- C1
\* C1: when the follow-up request of a tool round is sent, its message list
\* holds exactly one tool-result message (role tool, tool_call_id = id) for
\* every tool-call id of the batch, whatever the call ended in.
C1_ExactlyOneToolResult ==
  pc = "AwaitingFollowupResponse" =>
    \A k \in DOMAIN toolCalls :
      Cardinality(ToolResultPositions(request.messages, toolCalls[k].id)) = 1

\* a follow-up request for a batch of two in which one call was never routed
\* and one callTool invocation failed
C1_Witness ==
  /\ pc = "AwaitingFollowupResponse"
  /\ Len(toolCalls) >= 2
  /\ called < Len(toolCalls)
  /\ \E d \in DOMAIN dispatched : ~dispatched[d].ok
  /\ \E k \in DOMAIN toolCalls : toolCalls[k].arguments = BadArgs

\* ----------------------------------------------------------------- C2
\* C2: a failing call of a batch does not affect its siblings: every call
\* whose callTool invocation succeeded has a successful tool-result message,
\* the batch of k calls appends exactly k tool-result messages, and a turn
\* whose first reply requested tools always gets to its follow-up reply
\* (nothing is thrown out of the loop, the session goes on).
C2_FailureIsolated ==
  /\ pc \in {"DispatchingTools", "AwaitingFollowupResponse"} =>
       /\ \A d \in DOMAIN dispatched :
            dispatched[d].ok =>
              \E m \in DOMAIN updatedMessages :
                /\ updatedMessages[m].role = "tool"
                /\ updatedMessages[m].tool_call_id = dispatched[d].id
                /\ updatedMessages[m].content \in SuccessContents
       /\ Len(ToolMessagesOf(updatedMessages)) =
            (IF pc = "DispatchingTools" THEN tc - 1 ELSE Len(toolCalls))
  /\ pc = "AwaitingFollowupResponse" =>
       Len(ToolMessagesOf(request.messages)) = Len(toolCalls)
  /\ (replies # <<>> /\ Len(replies[1].tool_calls) > 0) =>
       \/ pc \in {"DispatchingTools", "AwaitingFollowupResponse"}
       \/ pc = "AwaitingUserInput" /\ Len(replies) = 2

\* a batch of two whose first call failed in callTool and whose second call
\* succeeded
C2_Witness ==
  /\ pc = "AwaitingFollowupResponse"
  /\ Len(toolCalls) = 2
  /\ Len(dispatched) = 2
  /\ ~dispatched[1].ok
  /\ dispatched[2].ok

\* ----------------------------------------------------------------- C3
\* C3: the tool-result messages of the follow-up request are in the order
\* of the tool calls of the reply: the k-th tool-result message references
\* the id of the k-th call.
C3_ResultsInRequestOrder ==
  pc = "AwaitingFollowupResponse" =>
    LET results == ToolMessagesOf(request.messages)
    IN /\ Len(results) = Len(toolCalls)
       /\ \A k \in DOMAIN toolCalls : results[k].tool_call_id = toolCalls[k].id

\* a follow-up request for two calls of which the first failed
C3_Witness ==
  /\ pc = "AwaitingFollowupResponse"
  /\ Len(toolCalls) >= 2
  /\ ToolMessagesOf(request.messages)[1].content \notin SuccessContents
  /\ ToolMessagesOf(request.messages)[2].content \in SuccessContents

\* ----------------------------------------------------------------- C4
\* C4: when two connected servers list the same tool identifier, a call of
\* that identifier goes to the connection that listed it last (the owner
\* that toolToServerMap records), not to an earlier one.
C4_LaterConnectionOwns ==
  \A d \in DOMAIN dispatched :
    LET listed == {k \in DOMAIN allTools : allTools[k].name = dispatched[d].name}
        last == CHOOSE k \in listed : \A j \in listed : j <= k
    IN /\ dispatched[d].server = allTools[last].serverName
       /\ dispatched[d].server = toolToServerMap[dispatched[d].name]

\* ----------------------------------------------------------------- C5
\* C5: a tool call whose identifier is not in the catalog gets exactly one
\* tool-result message, carrying the error payload "Tool <name> not found",
\* callTool is invoked on no connection for it, and the turn still gets to
\* its follow-up reply (nothing is thrown to the chat loop).
C5_UnknownToolYieldsError ==
  /\ pc \in {"DispatchingTools", "AwaitingFollowupResponse"} =>
       \A k \in DOMAIN toolCalls :
         (Processed(k) /\ toolCalls[k].name \notin CatalogNames) =>
           /\ \A m \in ToolResultPositions(updatedMessages, toolCalls[k].id) :
                updatedMessages[m].content =
                  "{error:Tool " \o toolCalls[k].name \o " not found}"
           /\ Cardinality(ToolResultPositions(updatedMessages, toolCalls[k].id)) = 1
           /\ \A d \in DOMAIN dispatched : dispatched[d].id # toolCalls[k].id
  /\ replies # <<>> =>
       LET calls == replies[1].tool_calls
           known == {k \in DOMAIN calls : calls[k].name \in CatalogNames}
       IN /\ called <= Cardinality(known)
          /\ (known # DOMAIN calls /\ pc = "AwaitingUserInput") => Len(replies) = 2

\* a follow-up request for a batch with a call of an unlisted tool next to a
\* call of a listed tool that succeeded
C5_Witness ==
  /\ pc = "AwaitingFollowupResponse"
  /\ \E k \in DOMAIN toolCalls : toolCalls[k].name \notin CatalogNames
  /\ \E d \in DOMAIN dispatched : dispatched[d].ok

\* ----------------------------------------------------------------- C6
\* C6: a user turn sends one model request when the first reply has no tool
\* calls and two when it has; the follow-up request carries no tool
\* declarations; after the follow-up reply the turn is over, also when that
\* reply carries tool calls: no further request, no further dispatch.
C6_SingleLevel ==
  /\ pc \in {"AwaitingModelResponse", "DispatchingTools"} => sent = 1
  /\ pc = "AwaitingFollowupResponse" =>
       /\ sent = 2
       /\ request.tools = <<>>
       /\ request.messages # <<>>
  /\ (replies # <<>> /\ replies[1].ok /\ Len(replies[1].tool_calls) = 0) =>
       /\ Len(replies) = 1
       /\ sent = 1
       /\ request = NoRequest
  /\ (replies # <<>> /\ Len(replies[1].tool_calls) > 0 /\ pc = "AwaitingUserInput") =>
       sent = 2
  /\ Len(replies) >= 2 =>
       /\ Len(replies) = 2
       /\ pc = "AwaitingUserInput"
       /\ sent = 2
       /\ request = NoRequest
       /\ called <= Len(replies[1].tool_calls)

\* a turn that ended with a follow-up reply carrying tool calls
C6_Witness ==
  /\ pc = "AwaitingUserInput"
  /\ Len(replies) = 2
  /\ replies[2].ok
  /\ Len(replies[2].tool_calls) > 0
  /\ allTools # <<>>

\* ----------------------------------------------------------------- C7
\* C7: a turn whose model query failed (no API key, or the first or the
\* follow-up request failed) ends at the prompt with exactly the user message
\* and one apology appended to the history.
C7_ModelFailureApology ==
  LET failed == \/ turns > 0 /\ ~apiKey
                \/ replies # <<>> /\ ~LastOf(replies).ok
  IN failed =>
       /\ pc \in {"AwaitingUserInput", "Disconnecting", "Closed", "Exit1"}
       /\ replies # <<>> => pc = "AwaitingUserInput"
       /\ Len(history) = 1 + 2 * turns
       /\ history[Len(history) - 1].role = "user"
       /\ LastOf(history) = [role |-> "assistant", content |-> ErrorMessage]

\* the follow-up request of a tool round failed and the session is back at
\* the prompt
C7_Witness ==
  /\ pc = "AwaitingUserInput"
  /\ Len(replies) = 2
  /\ ~replies[2].ok

\* ----------------------------------------------------------------- C8
\* C8: with zero established connections the session never gets to the
\* prompt: no user input is read, no model request is sent, no tool is
\* dispatched, and the session that ended for want of connections stays ended.
C8_NoConnectionsNoSession ==
  /\ Len(connections) = 0 =>
       /\ pc \in {"Idle", "Connecting", "NoApiKey", "NoConnections"}
       /\ turns = 0
       /\ sent = 0
       /\ called = 0
       /\ request = NoRequest
  /\ pc = "NoConnections" => Len(connections) = 0 /\ ~ENABLED Next

\* servers are configured and none could be connected
C8_Witness ==
  /\ pc = "NoConnections"
  /\ Len(serverNames) = 2

\* ----------------------------------------------------------------- C9
\* C9 as claimed: whenever at least one configured server can be connected,
\* the session does not end before the prompt.
C9_OnlyNoConnectionsAborts ==
  (SeqToSet(serverNames) \cap reachable # {}) => pc \notin {"NoApiKey", "NoConnections"}

\* C9 as amended: the session ends before the prompt only when checkOpenAIKey
\* finds no key or when no server could be connected; with a key found and a
\* server that can be connected, startup goes on until the prompt.
C9_OnlyKeyOrNoConnectionsAbort ==
  /\ pc = "NoApiKey" => ~hasApiKey
  /\ pc = "NoConnections" => hasApiKey /\ SeqToSet(serverNames) \cap reachable = {}
  /\ pc \in {"Idle", "Connecting", "FetchingTools"} => ENABLED Next
  /\ pc = "FetchingTools" => Len(connections) > 0

\* the prompt is reached although one of two servers could not be connected
\* and the server that could lists no tool
C9_Witness ==
  /\ pc = "AwaitingUserInput"
  /\ turns = 0
  /\ Len(serverNames) = 2
  /\ Len(connections) = 1
  /\ allTools = <<>>

\* ---------------------------------------------------------------- C10
\* C10: a first reply that is plain content ends the turn at the prompt with
\* exactly one assistant message appended after the user message, whose
\* content is the reply; one model request was sent, no tool was dispatched.
C10_PlainReply ==
  (replies # <<>> /\ replies[1].ok /\ Len(replies[1].tool_calls) = 0) =>
    /\ pc = "AwaitingUserInput"
    /\ Len(replies) = 1
    /\ sent = 1
    /\ called = 0
    /\ Len(history) = 1 + 2 * turns
    /\ history[Len(history) - 1].role = "user"
    /\ LastOf(history).role = "assistant"
    /\ replies[1].content # Null => LastOf(history).content = replies[1].content
    /\ replies[1].content = Null => LastOf(history).content = ""

\* the model answered "Hello" although tools were on offer
C10_Witness ==
  /\ pc = "AwaitingUserInput"
  /\ replies = <<[ok |-> TRUE, content |-> "Hello", tool_calls |-> <<>>]>>
  /\ allTools # <<>>

\* ---------------------------------------------------------------- C11
\* the tool-result message at position m of a message list is preceded by an
\* assistant message whose tool_calls hold its tool_call_id
AnnouncedBefore(messages, m) ==
  \E a \in 1..(m - 1) :
    /\ messages[a].role = "assistant"
    /\ "tool_calls" \in DOMAIN messages[a]
    /\ \E c \in DOMAIN messages[a].tool_calls :
         messages[a].tool_calls[c].id = messages[m].tool_call_id

\* C11: in every message list sent to the model (the request in flight, and
\* the list under construction for the follow-up request) every tool-result
\* message comes after an assistant message whose tool_calls contain the id
\* that the tool-result message references.
C11_ToolResultsAnnounced ==
  /\ \A m \in DOMAIN request.messages :
       request.messages[m].role = "tool" => AnnouncedBefore(request.messages, m)
  /\ \A m \in DOMAIN updatedMessages :
       updatedMessages[m].role = "tool" => AnnouncedBefore(updatedMessages, m)

\* a follow-up request in flight that carries the results of a batch of two,
\* one of which is an error payload
C11_Witness ==
  /\ pc = "AwaitingFollowupResponse"
  /\ Len(ToolMessagesOf(request.messages)) = 2
  /\ \E m \in DOMAIN request.messages :
       /\ request.messages[m].role = "tool"
       /\ request.messages[m].content \notin SuccessContents

\* ---------------------------------------------------------------- C12
\* the contents of the assistant message that ends a completed tool round
ToolsUsedContents == {"Tools used: ", "Tools used: Hello"}

\* an earlier turn of the session went through a tool round
HadToolRound ==
  \E k \in DOMAIN history :
    history[k].role = "assistant" /\ history[k].content \in ToolsUsedContents

C13_DeclarationsDistinct ==
  \A a, b \in DOMAIN request.tools :
    a # b => request.tools[a].name # request.tools[b].name

\* ---------------------------------------------------------------- C14
\* the tool-result message of call k of the running batch
ResultOf(k) ==
  LET m == CHOOSE m \in ToolResultPositions(updatedMessages, toolCalls[k].id) : TRUE
  IN updatedMessages[m]

\* C14 as stated: a processed call whose argument payload cannot be parsed
\* has a tool-result message that carries an error payload, never a success
\* result.
C14_ParseFailureYieldsErrorPayload ==
  pc \in {"DispatchingTools", "AwaitingFollowupResponse"} =>
    \A k \in DOMAIN toolCalls :
      (Processed(k) /\ toolCalls[k].arguments = BadArgs) =>
        /\ ToolResultPositions(updatedMessages, toolCalls[k].id) # {}
        /\ ResultOf(k).content \notin SuccessContents

\* C14 (amended): a parse failure never escapes the dispatch loop, and the
\* call gets exactly one tool-result message for its id; that message reports
\* what the dispatch with the placeholder arguments ended in: the serialized
\* result if callTool succeeded (a success result), an error payload if the
\* call could not be routed or callTool failed.
C14_ParseFailureReportsDispatch ==
  pc \in {"DispatchingTools", "AwaitingFollowupResponse"} =>
    \A k \in DOMAIN toolCalls :
      (Processed(k) /\ toolCalls[k].arguments = BadArgs) =>
        /\ Cardinality(ToolResultPositions(updatedMessages, toolCalls[k].id)) = 1
        /\ (\E d \in DOMAIN dispatched :
              dispatched[d].id = toolCalls[k].id /\ dispatched[d].ok)
             <=> ResultOf(k).content \in SuccessContents

\* a call with an unparsable payload was dispatched, callTool succeeded, and
\* its tool-result message is the serialized result
C14_Witness ==
  /\ pc = "AwaitingFollowupResponse"
  /\ \E k \in DOMAIN toolCalls :
       /\ toolCalls[k].arguments = BadArgs
       /\ ResultOf(k).content \in SuccessContents
  /\ \E k \in DOMAIN toolCalls :
       /\ toolCalls[k].arguments = BadArgs
       /\ ResultOf(k).content \notin SuccessContents

\* ------------------------------------------------------------- interrupt
\* the states in which the chat session holds connections or is opening them
SessionActive ==
  pc \in {"Connecting", "FetchingTools", "AwaitingUserInput", "AwaitingModelResponse",
          "DispatchingTools", "AwaitingFollowupResponse", "Disconnecting"}

\* an interrupt signal reaches the chat command.  The chat command installs
\* no listener for it, neither on the process nor on its readline interface:
\* the process ends on the signal (or readline closes the interface and the
\* pending rl.question never resolves), the clean-up loop after the chat
\* loop is not run, no McpConnection is touched.
Interrupt ==
  /\ SessionActive
  /\ pc' = "Interrupted"
  /\ UNCHANGED <<env, i, userInput, history, startup, turns, llm, pending>>

NextInterrupt == Next \/ Interrupt

SpecInterrupt == Init /\ [][NextInterrupt]_vars

\* ---------------------------------------------------------------- C15
\* C15 as stated, for the chat session: once an interrupt received during
\* the active session has ended it, disconnect() has been called on every
\* connection the session had opened, so that no connection of the session
\* still holds its client.
C15_InterruptDisconnectsAll ==
  pc = "Interrupted" => \A k \in DOMAIN connections : ~client[connections[k]]

\* ---------------------------------------------------------------- C16
\* the spellings of the exit keywords among the inputs
ExitSpellings == {"exit", "EXIT", "Exit", "quit", "QUIT", "Quit"}

\* the session has left the chat loop
SessionEnded == pc \in {"Disconnecting", "Closed", "Exit1"}

\* C16: a line that is "exit" or "quit" in any letter case ends the chat
\* loop; it is not appended to the history (which keeps its system message
\* and the two messages of every earlier turn) and no model request is sent
\* for it.  Any other line does not end the session: it is appended as a
\* user message and the session stays in the chat loop.
C16_ExitKeywordEndsSession ==
  /\ userInput \in ExitSpellings =>
       /\ SessionEnded
       /\ Len(history) = 1 + 2 * turns
       /\ \A k \in DOMAIN history : history[k].content \notin ExitSpellings
       /\ sent = 0
       /\ request = NoRequest
  /\ SessionEnded => userInput \in ExitSpellings
  /\ (userInput # "" /\ userInput \notin ExitSpellings) =>
       /\ pc \in {"AwaitingUserInput", "AwaitingModelResponse", "DispatchingTools",
                  "AwaitingFollowupResponse"}
       /\ \E k \in DOMAIN history :
            history[k].role = "user" /\ history[k].content = userInput

\* the session was ended with "QUIT" after a turn in which "hi" was answered
C16_Witness ==
  /\ pc = "Closed"
  /\ userInput = "QUIT"
  /\ turns = 1
  /\ Len(history) = 3
  /\ history[2].content = "hi"

\* ---------------------------------------------------------------- C17
RECURSIVE SumLen(_)
SumLen(ls) == IF ls = <<>> THEN 0 ELSE Len(Head(ls)) + SumLen(Tail(ls))

\* no tool identifier was listed by two connections
NoSharedIdentifier ==
  \A a, b \in DOMAIN listings :
    a # b => SeqToSet(listings[a]) \cap SeqToSet(listings[b]) = {}

\* C17: when no two connected servers share a tool identifier, the catalog
\* built at chat startup has exactly sum(T_i) entries, T_i being the number of
\* tools connection i listed, and each entry records as owner the server
\* name of the connection that listed it (so does toolToServerMap).
C17_CatalogCountsAndOwners ==
  (Len(connections) > 0 /\ Len(listings) = Len(connections) /\ NoSharedIdentifier) =>
    /\ Len(allTools) = SumLen(listings)
    /\ \A k \in DOMAIN listings :
         \A n \in SeqToSet(listings[k]) :
           /\ Cardinality({e \in DOMAIN allTools : allTools[e].name = n}) = 1
           /\ \E e \in DOMAIN allTools :
                allTools[e].name = n /\ allTools[e].serverName = connections[k]
           /\ toolToServerMap[n] = connections[k]
    /\ \A e \in DOMAIN allTools :
         \E k \in DOMAIN listings :
           /\ allTools[e].serverName = connections[k]
           /\ \E p \in DOMAIN listings[k] : listings[k][p] = allTools[e].name

\* two connections, the first listed "search", the second listed "read"
C17_Witness ==
  /\ pc = "AwaitingUserInput"
  /\ connections = <<"serverA", "serverB">>
  /\ listings = << <<"search">>, <<"read">> >>

\* ---------------------------------------------------------------- C18
\* the callTool invocations made for call k of the running batch
InvocationsOf(k) == {d \in DOMAIN dispatched : dispatched[d].id = toolCalls[k].id}

CatalogEntries == [name : ToolNames, serverName : ServerSet \cup {""}]
Catalogs == {<<>>} \cup {<<e>> : e \in CatalogEntries}

\* the chat loop over a catalog and a connection list that the start-up
\* code did not build
InitCall ==
  /\ limits = [turns |-> MaxTurns, batch |-> ShortBatch]
  /\ start = NotStarted
  /\ file = NoFile
  /\ mcp = NoMcp
  /\ hasApiKey = TRUE
  /\ apiKey = TRUE
  /\ serverNames = ConfigOrder
  /\ connections \in SubSeqs(ConfigOrder)
  /\ reachable = SeqToSet(connections)
  /\ client = [s \in ServerSet |-> s \in SeqToSet(connections)]
  /\ allTools \in Catalogs
  /\ toolToServerMap = <<>>
  /\ listings = <<>>
  /\ listFailures = <<>>
  /\ pc = "AwaitingUserInput"
  /\ i = 1
  /\ userInput = ""
  /\ history = <<[role |-> "system", content |-> SystemPrompt]>>
  /\ turns = 0
  /\ updatedMessages = <<>>
  /\ toolCalls = <<>>
  /\ tc = 1
  /\ request = NoRequest
  /\ sent = 0
  /\ dispatched = <<>>
  /\ called = 0
  /\ replies = <<>>
  /\ pending = {}

NextCall ==
  \/ UserInput
  \/ ModelReply
  \/ DispatchToolCall
  \/ FollowupReply

SpecCall == InitCall /\ [][NextCall]_vars

\* ---------------------------------------------------------------- C19
\* the server named by the catalog entry found for a tool name, "" if none
OwnerInCatalog(toolName) ==
  IF FindTool(allTools, toolName) = 0 THEN ""
  ELSE allTools[FindTool(allTools, toolName)].serverName

\* C19: a processed tool call whose catalog entry names a server for which
\* the connection list holds no connection has the route-not-found error
\* ("No connection found for server ...") as the error payload of its
\* tool-result message, and callTool was invoked for it on no connection.
C19_NoConnectionForOwner ==
  pc \in {"DispatchingTools", "AwaitingFollowupResponse"} =>
    \A k \in DOMAIN toolCalls :
      LET owner == OwnerInCatalog(toolCalls[k].name) IN
      (Processed(k) /\ owner # "" /\ owner \notin SeqToSet(connections)) =>
        /\ Cardinality(ToolResultPositions(updatedMessages, toolCalls[k].id)) = 1
        /\ ResultOf(k).content = "{error:No connection found for server " \o owner \o "}"
        /\ InvocationsOf(k) = {}
        /\ dispatched = <<>> \/ \A d \in DOMAIN dispatched : dispatched[d].name # toolCalls[k].name

\* "search" is in the catalog as a tool of serverB, only serverA is
\* connected, and the follow-up request of a round that asked for "search"
\* is in flight
C19_Witness ==
  /\ pc = "AwaitingFollowupResponse"
  /\ allTools = <<[name |-> "search", serverName |-> "serverB"]>>
  /\ connections = <<"serverA">>
  /\ toolCalls[1].name = "search"
  /\ called = 0

\* ---------------------------------------------------------------- C20
\* the placeholder { _error: "Failed to parse arguments" } as callTool gets it
PlaceholderArgs == "_error=Failed to parse arguments"

\* C20: when the argument payload of a call fails to parse, the batch is not
\* aborted: the call and every call after it are processed (one tool-result
\* message per processed call, the follow-up request is reached with one for
\* every call of the batch), and if the call can be routed, callTool is
\* invoked for it with the error placeholder as its arguments; a payload
\* that parses is passed on as parsed.
C20_PlaceholderDispatched ==
  pc \in {"DispatchingTools", "AwaitingFollowupResponse"} =>
    /\ Len(ToolMessagesOf(updatedMessages)) =
         Cardinality({k \in DOMAIN toolCalls : Processed(k)})
    /\ \A k \in DOMAIN toolCalls :
         Processed(k) =>
           /\ Cardinality(ToolResultPositions(updatedMessages, toolCalls[k].id)) = 1
           /\ OwnerInCatalog(toolCalls[k].name) \in SeqToSet(connections) =>
                \E d \in InvocationsOf(k) :
                  dispatched[d].args =
                    (IF toolCalls[k].arguments = BadArgs THEN PlaceholderArgs ELSE "q=1")

\* a batch of two: the payload of the first call did not parse, callTool was
\* invoked for it with the placeholder, and the second call was dispatched
\* with its parsed arguments
C20_Witness ==
  /\ pc = "AwaitingFollowupResponse"
  /\ Len(toolCalls) = 2
  /\ toolCalls[1].arguments = BadArgs
  /\ toolCalls[2].arguments = GoodArgs
  /\ Len(dispatched) = 2
  /\ dispatched[1].args = PlaceholderArgs
  /\ dispatched[2].args = "q=1"

\* ---------------------------------------------------------------- C21
\* the positions of the assistant message that carries the requested calls
ToolCallRequestPositions(messages) ==
  {k \in DOMAIN messages :
     /\ messages[k].role = "assistant"
     /\ "tool_calls" \in DOMAIN messages[k]
     /\ Len(messages[k].tool_calls) > 0}

\* C21 as stated: in the message list of the follow-up request the assistant
\* message that carries the tool-call requests comes after the last
\* tool-result message of the batch.
C21_RequestMessageAfterResults ==
  pc = "AwaitingFollowupResponse" =>
    \E a \in ToolCallRequestPositions(request.messages) :
      \A m \in DOMAIN request.messages :
        request.messages[m].role = "tool" => m < a

\* C21 (amended): the assistant message that carries the tool-call requests
\* is put into the message list before the first call of the batch is
\* processed: it is the one message that follows the formatted history, it
\* carries the whole batch, and every tool-result message of the batch comes
\* after it; the last message of the follow-up request is the tool-result
\* message of the last call.
C21_RequestMessageBeforeResults ==
  /\ pc \in {"DispatchingTools", "AwaitingFollowupResponse"} =>
       /\ ToolCallRequestPositions(updatedMessages) = {Len(history) + 1}
       /\ updatedMessages[Len(history) + 1].tool_calls = toolCalls
       /\ \A m \in DOMAIN updatedMessages :
            updatedMessages[m].role = "tool" <=> m > Len(history) + 1
  /\ pc = "AwaitingFollowupResponse" =>
       /\ request.messages = updatedMessages
       /\ LastOf(request.messages).role = "tool"
       /\ LastOf(request.messages).tool_call_id = toolCalls[Len(toolCalls)].id

\* the follow-up request of a batch of two is in flight
C21_Witness ==
  /\ pc = "AwaitingFollowupResponse"
  /\ Len(toolCalls) = 2
  /\ Len(request.messages) = Len(history) + 3
  /\ called = 2

\* ---------------------------------------------------------------- C22
\* the servers among the first n configured ones whose connect() succeeds,
\* in configuration order
RECURSIVE Succeeding(_)
Succeeding(names) ==
  IF names = <<>> THEN <<>>
  ELSE IF Head(names) \in reachable THEN <<Head(names)>> \o Succeeding(Tail(names))
  ELSE Succeeding(Tail(names))

\* C22: connectToAllServers goes through the configured servers one at a
\* time in configuration order: while it runs, the active set is exactly the
\* servers before the current one whose connect() succeeded, in that order,
\* and connect() was called on no later server; when it is done the active
\* set is exactly the succeeding servers in configuration order.  A failing
\* server keeps neither later servers from being connected nor the session
\* from starting: the session gives up for lack of connections only if no
\* configured server succeeded.
C22_ActiveSetIsSucceeding ==
  /\ pc = "Connecting" =>
       /\ connections = Succeeding(SubSeq(serverNames, 1, i - 1))
       /\ \A k \in i..Len(serverNames) : ~client[serverNames[k]]
  /\ pc \in {"FetchingTools", "AwaitingUserInput", "AwaitingModelResponse",
             "DispatchingTools", "AwaitingFollowupResponse", "Disconnecting"} =>
       /\ connections = Succeeding(serverNames)
       /\ connections # <<>>
  /\ (pc = "NoConnections" /\ hasApiKey) => Succeeding(serverNames) = <<>>

\* the first configured server failed to connect, the second one succeeded,
\* and the session is at its prompt
C22_Witness ==
  /\ pc = "AwaitingUserInput"
  /\ serverNames = <<"serverA", "serverB">>
  /\ reachable = {"serverB"}
  /\ connections = <<"serverB">>

\* ---------------------------------------------------------------- C23
\* the catalog entries tagged with connection k
EntriesOf(k) == {e \in DOMAIN allTools : allTools[e].serverName = connections[k]}

\* C23: while the catalog is built, a connection whose tool listing fails
\* (method not found or any other failure) or is empty contributes no entry;
\* the failure does not end the session, the tools listed by the other
\* connections are in the catalog, and once every connection was asked the
\* session is at its first prompt, whether the catalog is empty or not.
C23_FailedListingContributesNothing ==
  /\ listFailures # <<>> =>
       /\ pc \in {"FetchingTools", "AwaitingUserInput"}
       /\ turns = 0
       /\ Len(listings) = Len(listFailures)
       /\ \A k \in DOMAIN listFailures :
            /\ (listFailures[k] # "" \/ listings[k] = <<>>) => EntriesOf(k) = {}
            /\ listFailures[k] = "" =>
                 \A p \in DOMAIN listings[k] :
                   \E e \in EntriesOf(k) : allTools[e].name = listings[k][p]
  /\ (listFailures # <<>> /\ Len(listFailures) = Len(connections)) =>
       pc = "AwaitingUserInput"

\* the listing of the first connection failed, the second connection listed
\* "search", and the session is at its first prompt
C23_Witness ==
  /\ pc = "AwaitingUserInput"
  /\ connections = <<"serverA", "serverB">>
  /\ listFailures = <<"other", "">>
  /\ allTools = <<[name |-> "search", serverName |-> "serverB"]>>

C25_OneRemoteCallInFlight ==
  /\ Cardinality(pending) <= 1
  /\ pc = "Connecting" => pending = {"connect:" \o serverNames[i]}
  /\ pc = "FetchingTools" => pending = {"listTools:" \o connections[i]}
  /\ pc = "AwaitingModelResponse" => pending = {"model:first"} /\ request # NoRequest
  /\ pc = "DispatchingTools" =>
       /\ pending \subseteq {"callTool:" \o toolCalls[tc].id}
       /\ request = NoRequest
       /\ Len(ToolMessagesOf(updatedMessages)) = tc - 1
       /\ \A k \in 1..(tc - 1) :
            ToolMessagesOf(updatedMessages)[k].tool_call_id = toolCalls[k].id
  /\ pc = "AwaitingFollowupResponse" => pending = {"model:followup"}
  /\ pc = "Disconnecting" => pending = {"disconnect:" \o connections[i]}
  /\ pc \in {"Idle", "NoApiKey", "NoConnections", "AwaitingUserInput", "Closed", "Exit1"} =>
       pending = {} /\ request = NoRequest

\* the second call of a batch of two routable calls is in flight, the first
\* one has returned
C25_Witness ==
  /\ pc = "DispatchingTools"
  /\ Len(toolCalls) = 2
  /\ tc = 2
  /\ Len(dispatched) = 1
  /\ pending = {"callTool:" \o toolCalls[2].id}

\* ------------------------------------------------------------- fairness
\* a short session in which every model request and every tool dispatch
\* that is awaited eventually returns or fails
InitShort ==
  /\ InitSession
  /\ limits = [turns |-> MaxTurns, batch |-> ShortBatch]
  /\ start = NotStarted
  /\ file = NoFile
  /\ mcp = NoMcp

SpecFair ==
  /\ InitShort
  /\ [][Next]_vars
  /\ WF_vars(ModelReply)
  /\ WF_vars(DispatchToolCall)
  /\ WF_vars(FollowupReply)

\* ---------------------------------------------------------------- C27
\* a turn is under way
InTurn == pc \in {"AwaitingModelResponse", "DispatchingTools", "AwaitingFollowupResponse"}

\* the chat loop moves along the edges of the stated machine
ChatLoopStep ==
  \/ pc' = pc
  \/ pc = "AwaitingUserInput" /\ pc' \in {"AwaitingModelResponse", "Disconnecting"}
  \/ pc = "AwaitingModelResponse" /\ pc' \in {"DispatchingTools", "AwaitingUserInput"}
  \/ pc = "DispatchingTools" /\ pc' = "AwaitingFollowupResponse"
  \/ pc = "AwaitingFollowupResponse" /\ pc' = "AwaitingUserInput"
  \/ pc \notin {"AwaitingUserInput", "AwaitingModelResponse", "DispatchingTools",
                "AwaitingFollowupResponse"}

\* tools are dispatched only after a first reply with a non-empty tool-call
\* list and before the follow-up request of the same turn, and a turn whose
\* first reply asked for tools passes through dispatch and the follow-up
DispatchOnlyInToolRound ==
  /\ pc = "DispatchingTools" =>
       /\ Len(replies) = 1 /\ replies[1].ok /\ Len(replies[1].tool_calls) > 0
       /\ toolCalls = replies[1].tool_calls
       /\ sent = 1
  /\ pc = "AwaitingFollowupResponse" =>
       /\ Len(replies) = 1 /\ Len(replies[1].tool_calls) > 0
       /\ sent = 2
       /\ called <= Len(toolCalls)
  /\ pc \notin {"DispatchingTools", "AwaitingFollowupResponse"} => dispatched = <<>>
  /\ (pc = "AwaitingUserInput" /\ replies # <<>>) =>
       (Len(replies[1].tool_calls) > 0 <=> Len(replies) = 2)
  /\ (pc = "AwaitingUserInput" /\ replies # <<>> /\ Len(replies[1].tool_calls) = 0) =>
       called = 0

\* C27: the chat loop follows the state machine AwaitingUserInput ->
\* AwaitingModelResponse -> DispatchingTools -> AwaitingFollowupResponse ->
\* AwaitingUserInput, tool dispatch happens only between a first reply with a
\* non-empty tool-call list and the follow-up request of the same turn, and,
\* every awaited model request and tool dispatch eventually returning or
\* failing, every turn that is under way leads back to waiting for user
\* input.
C27_TurnsComplete ==
  /\ [][ChatLoopStep]_vars
  /\ []DispatchOnlyInToolRound
  /\ InTurn ~> pc = "AwaitingUserInput"

\* a turn that went through a tool round with a failing call is back at the
\* prompt
C27_Witness ==
  /\ pc = "AwaitingUserInput"
  /\ turns = 1
  /\ Len(replies) = 2
  /\ called = 1
  /\ Len(history) = 3

\* ---------------------------------------------------------------- C28
\* sequence a is a prefix of sequence b
IsPrefix(a, b) == Len(a) <= Len(b) /\ SubSeq(b, 1, Len(a)) = a

\* C28: every step of the session leaves the history unchanged or appends
\* messages at its end: the history before the step is a prefix of the
\* history after it, also across the steps of callLLM, which formats the
\* history into a list of its own and adds the tool messages to that list.
C28_HistoryStep == IsPrefix(history, history')

C28_HistoryAppendOnly == [][C28_HistoryStep]_vars

\* two turns are in the history, the first ended by a failed model request,
\* the second by the answer of a tool round
C28_Witness ==
  /\ pc = "AwaitingUserInput"
  /\ Len(history) = 5
  /\ history[3].content = ErrorMessage
  /\ Len(replies) = 2
  /\ replies[2].ok

\* ---------------------------------------------------------------- C29
\* C29: whenever the session waits for user input, the history is the system
\* message followed by one (user, assistant) pair per completed turn: one
\* user message and one assistant message were appended by every non-exit
\* turn, whether it ended with a plain reply, with the answer of a tool round
\* or with the apology for a failure.
C29_SystemThenPairs ==
  pc = "AwaitingUserInput" =>
    /\ Len(history) = 1 + 2 * turns
    /\ history[1] = [role |-> "system", content |-> SystemPrompt]
    /\ \A t \in 1..turns :
         /\ history[2 * t].role = "user"
         /\ history[2 * t].content \in UserInputs \ ExitSpellings
         /\ history[2 * t + 1].role = "assistant"

\* the prompt after two turns: the first ended with an empty plain reply,
\* the second with the apology for a failed follow-up request
C29_Witness ==
  /\ pc = "AwaitingUserInput"
  /\ turns = 2
  /\ history[3] = [role |-> "assistant", content |-> ""]
  /\ history[5] = [role |-> "assistant", content |-> ErrorMessage]
  /\ Len(replies) = 2

\* --------------------------------------------------------- start session
\* The interactive session of the start command, from the point where its
\* handlers are registered.  Handlers are async functions started by events:
\* a handler runs until it awaits a call to a server (client.close(),
\* client.listTools(), client.listResources()), and while it waits any other
\* event may start or resume another handler.  /help, /servers and plain
\* messages read no connection state that another handler writes and are
\* left out.
HandlerNames == {"exit", "close", "sigint", "use", "resources", "tools"}
Disconnecters == {"exit", "close", "sigint"}
Listers == {"use", "resources", "tools"}

\* what follows "/use ": parseInt(input.substring(5).trim(), 10)
UseArguments == {"1", "2", "0", "3", "2x", "x", ""}
ParseInt(a) ==
  CASE a = "1" -> [nan |-> FALSE, value |-> 1]
    [] a = "2" -> [nan |-> FALSE, value |-> 2]
    [] a = "2x" -> [nan |-> FALSE, value |-> 2]
    [] a = "0" -> [nan |-> FALSE, value |-> 0]
    [] a = "3" -> [nan |-> FALSE, value |-> 3]
    [] OTHER -> [nan |-> TRUE, value |-> 0]

\* InvalidServerIndex that rejects the first connection too
InvalidServerIndexFromTwo(parsed, conns) ==
  parsed.nan \/ parsed.value - 1 <= 0 \/ parsed.value - 1 >= Len(conns)

\* isNaN(serverIndex) || serverIndex < 0 || serverIndex >= allConnections.length
InvalidServerIndex(parsed, conns) ==
  parsed.nan \/ parsed.value - 1 < 0 \/ parsed.value - 1 >= Len(conns)

\* no "/use" line has been read yet
NoUse == "<none>"

\* the session once allConnections is filled (one server with --server, all
\* of them otherwise), connection is its first entry and the handlers are
\* registered; child tells which connections run a child process (stdio)
StartSession(conns, child) ==
  [status |-> "running", conns |-> conns, active |-> 1,
   client |-> [s \in ServerSet |-> s \in SeqToSet(conns)],
   child |-> [s \in ServerSet |-> s \in child],
   closeCalls |-> [s \in ServerSet |-> 0],
   killCalls |-> [s \in ServerSet |-> 0],
   at |-> [h \in HandlerNames |-> "idle"],
   k |-> [h \in HandlerNames |-> 0],
   rlClosed |-> FALSE,
   useArg |-> NoUse, useFrom |-> 0]

StartSessions ==
  {StartSession(x[1], x[2]) :
     x \in {y \in {<<"serverA">>, ConfigOrder} \X SUBSET ServerSet :
              y[2] \subseteq SeqToSet(y[1])}}

\* the second half of McpConnection.disconnect(): kill the child process
KillChild(s, c) ==
  IF s.child[c]
  THEN [s EXCEPT !.child[c] = FALSE, !.killCalls[c] = @ + 1]
  ELSE s

\* for (const conn of allConnections) await conn.disconnect(), run by
\* handler h from connection k on until it has to wait for a client.close(),
\* and what follows the loop: rl.close() in the /exit handler, which emits
\* "close" and so starts the close handler at once unless readline is
\* closed already; process.exit(0) in the close and SIGINT handlers
RECURSIVE DisconnectFrom(_, _, _)
DisconnectFrom(s, h, k) ==
  IF k > Len(s.conns)
  THEN IF h = "exit"
       THEN IF s.rlClosed
            THEN [s EXCEPT !.at[h] = "done", !.k[h] = 0]
            ELSE DisconnectFrom([s EXCEPT !.at[h] = "done", !.k[h] = 0, !.rlClosed = TRUE],
                                "close", 1)
       ELSE [s EXCEPT !.at[h] = "done", !.k[h] = 0, !.status = "exit0"]
  ELSE IF s.client[s.conns[k]]
  THEN [s EXCEPT !.closeCalls[s.conns[k]] = @ + 1, !.at[h] = "closing", !.k[h] = k]
  ELSE DisconnectFrom(KillChild(s, s.conns[k]), h, k + 1)

\* the client.close() that handler h waits for returns: disconnect() goes on
\* with this.client = null and the child process, the loop with the next
\* connection; a rejection leaves disconnect() and the handler, and the
\* unhandled rejection ends the process
ResumeDisconnect(s, h, closeOk) ==
  IF ~closeOk THEN [s EXCEPT !.status = "crashed"]
  ELSE DisconnectFrom(KillChild([s EXCEPT !.client[s.conns[s.k[h]]] = FALSE], s.conns[s.k[h]]),
                      h, s.k[h] + 1)

chat == <<limits, hasApiKey, apiKey, serverNames, reachable, pc, i, userInput, history,
          startup, turns, llm, pending, file, mcp>>

\* the line "/exit" is read
LineExit ==
  /\ start.status = "running"
  /\ ~start.rlClosed
  /\ start.at["exit"] = "idle"
  /\ start' = DisconnectFrom(start, "exit", 1)
  /\ UNCHANGED chat

\* readline closes on Ctrl+C or the end of the input: the close handler
ReadlineClose ==
  /\ start.status = "running"
  /\ ~start.rlClosed
  /\ start' = DisconnectFrom([start EXCEPT !.rlClosed = TRUE], "close", 1)
  /\ UNCHANGED chat

\* the process receives SIGINT: the SIGINT handler
Sigint ==
  /\ start.status = "running"
  /\ start.at["sigint"] = "idle"
  /\ start' = DisconnectFrom(start, "sigint", 1)
  /\ UNCHANGED chat

\* a client.close() that a handler waits for returns or rejects
CloseReturns ==
  /\ start.status = "running"
  /\ \E h \in Disconnecters :
       /\ start.at[h] = "closing"
       /\ \E closeOk \in BOOLEAN : start' = ResumeDisconnect(start, h, closeOk)
  /\ UNCHANGED chat

\* the line "/tools" or "/resources" is read: connection?.listTools() or
\* listResources(), which asks the client if there is one and returns null
\* at once if not
LineList ==
  /\ start.status = "running"
  /\ ~start.rlClosed
  /\ \E h \in {"tools", "resources"} :
       /\ start.at[h] = "idle"
       /\ start.client[start.conns[start.active]]
       /\ start' = [start EXCEPT !.at[h] = "listing", !.k[h] = start.active]
  /\ UNCHANGED chat

\* the line "/use <n>" is read: an invalid number is reported and changes
\* nothing, a valid one switches connection and lists the tools of the new
\* one; useArg and useFrom record the argument and the connection that was
\* active when the line was read
LineUse ==
  /\ start.status = "running"
  /\ ~start.rlClosed
  /\ start.at["use"] = "idle"
  /\ \E a \in UseArguments :
       LET serverIndex == ParseInt(a).value - 1
           read == [start EXCEPT !.useArg = a, !.useFrom = start.active]
       IN start' = IF InvalidServerIndex(ParseInt(a), start.conns)
                   THEN read
                   ELSE IF start.client[start.conns[serverIndex + 1]]
                   THEN [read EXCEPT !.active = serverIndex + 1,
                                     !.at["use"] = "listing", !.k["use"] = serverIndex + 1]
                   ELSE [read EXCEPT !.active = serverIndex + 1]
  /\ UNCHANGED chat

\* the listing that a handler waits for returns (or fails, which listTools
\* and listResources catch): the handler prints and prompts
ListReturns ==
  /\ start.status = "running"
  /\ \E h \in Listers :
       /\ start.at[h] = "listing"
       /\ start' = [start EXCEPT !.at[h] = "idle", !.k[h] = 0]
  /\ UNCHANGED chat

InitStart ==
  /\ InitSession
  /\ limits = [turns |-> MaxTurns, batch |-> MaxBatch]
  /\ hasApiKey
  /\ apiKey
  /\ serverNames = ConfigOrder
  /\ reachable = ServerSet
  /\ start \in StartSessions
  /\ file = NoFile
  /\ mcp = NoMcp

NextStart ==
  \/ LineExit
  \/ ReadlineClose
  \/ Sigint
  \/ CloseReturns
  \/ LineList
  \/ LineUse
  \/ ListReturns

SpecStart == InitStart /\ [][NextStart]_vars

\* ---------------------------------------------------------------- C26
\* handler h is waiting for a call on the connection at index n
WaitsOn(h, n) == start.at[h] \in {"closing", "listing"} /\ start.k[h] = n

\* C26 as stated: no handler of the start session uses a connection while
\* another handler is in the middle of disconnecting it: a connection whose
\* client.close() a handler waits for has no other handler waiting for a
\* call on it.
C26_NoOverlappingAccess ==
  \A h1, h2 \in HandlerNames :
    \A n \in DOMAIN start.conns :
      (h1 # h2 /\ start.at[h1] = "closing" /\ start.k[h1] = n) => ~WaitsOn(h2, n)

\* ---------------------------------------------------------------- C30
\* C30 as stated: whatever disconnect() calls the handlers of the start
\* session issue on a connection, and however they interleave, close() of
\* its client is invoked at most once and its child process is killed at
\* most once.
C30_ClosedAtMostOnce ==
  \A s \in ServerSet :
    start.closeCalls[s] <= 1 /\ start.killCalls[s] <= 1

\* ---------------------------------------------------------------- C31
\* the argument is a decimal number and nothing else
IsNumeral(a) == a \in {"0", "1", "2", "3"}

\* C31 as stated: the active connection is one of the established ones, and
\* after "/use <a>" it is the n-th connection if a is a number n with
\* 1 <= n <= number of connections and the one it was before for any other a
C31_UseSwitchesOnNumbersOnly ==
  /\ start.status # "off" => start.active \in DOMAIN start.conns
  /\ (start.status # "off" /\ start.useArg # NoUse) =>
       IF IsNumeral(start.useArg) /\ ParseInt(start.useArg).value \in DOMAIN start.conns
       THEN start.active = ParseInt(start.useArg).value
       ELSE start.active = start.useFrom

\* C31: the active connection is one of the established ones, and after
\* "/use <a>" it is the n-th connection if a begins with a decimal number n
\* (what parseInt reads, whatever follows the digits) with 1 <= n <= number
\* of connections, and the one it was before for any other a
C31_UseSwitchesOnLeadingNumber ==
  /\ start.status # "off" => start.active \in DOMAIN start.conns
  /\ (start.status # "off" /\ start.useArg # NoUse) =>
       IF ~ParseInt(start.useArg).nan /\ ParseInt(start.useArg).value \in DOMAIN start.conns
       THEN start.active = ParseInt(start.useArg).value
       ELSE start.active = start.useFrom

\* "/use 2x" has switched from the first connection to the second
C31_Witness ==
  /\ start.status = "running"
  /\ start.useArg = "2x"
  /\ start.useFrom = 1
  /\ start.active = 2

\* ------------------------------------------------------- ConfigManager
\* The configuration file is edited by hand (the configure command opens it
\* in an editor), so a ConfigManager may find any text in it: text that is
\* not JSON, a JSON object without mcpServers, or a configuration.
\* Property names: two server names and one name that every object inherits
\* from Object.prototype.
ServerKeys == {"serverA", "serverB", "constructor"}
InheritedKeys == {"constructor"}
ModelIds == {"gpt-4o", "gpt-4o-mini"}

\* values of mcpServers[name]: a ServerConfig ("" is a property that is not
\* there), undefined, or the function found on the prototype chain
Undefined == [kind |-> "undefined", command |-> "", url |-> ""]
Inherited == [kind |-> "inherited", command |-> "", url |-> ""]
ServerConfigs ==
  [kind : {"config"}, command : {"", "npx"}, url : {"", "http://host/sse", "not a url"}]

NoServers == [n \in ServerKeys |-> Undefined]
EmptyConfig == [text |-> "config", defaultModel |-> "", mcpServers |-> NoServers]
ConfigFiles ==
  [text : {"config"}, defaultModel : {"", "gpt-4o"},
   mcpServers : [ServerKeys -> ServerConfigs \cup {Undefined}]] \cup
  [text : {"no mcpServers"}, defaultModel : {"", "gpt-4o"}, mcpServers : {NoServers}] \cup
  [text : {"not JSON"}, defaultModel : {""}, mcpServers : {NoServers}]

\* loadMcpConfig: what JSON.parse makes of the file, the default
\* configuration if the file cannot be read or parsed
LoadMcpConfig(f) == IF f.text = "not JSON" THEN EmptyConfig ELSE f

\* saveMcpConfig: JSON.stringify writes the own properties of the object
SaveMcpConfig(config) ==
  [text |-> config.text, defaultModel |-> config.defaultModel, mcpServers |-> config.mcpServers]

\* config.mcpServers[name] throws a TypeError if mcpServers is undefined
HasServers(config) == config.text = "config"

\* config.mcpServers[name]: the own property, else what Object.prototype has
Lookup(config, name) ==
  IF config.mcpServers[name] # Undefined THEN config.mcpServers[name]
  ELSE IF name \in InheritedKeys THEN Inherited
  ELSE Undefined

\* the truthiness of a value of mcpServers[name]
Truthy(v) == v # Undefined

\* getServer(name): the value returned, or the TypeError
GetServer(f, name) ==
  IF HasServers(LoadMcpConfig(f))
  THEN [threw |-> FALSE, value |-> Lookup(LoadMcpConfig(f), name)]
  ELSE [threw |-> TRUE, value |-> Undefined]

\* addServer(name, serverConfig): the file afterwards
AddServer(f, name, serverConfig) ==
  IF HasServers(LoadMcpConfig(f))
  THEN [threw |-> FALSE,
        file |-> SaveMcpConfig([LoadMcpConfig(f) EXCEPT !.mcpServers[name] = serverConfig])]
  ELSE [threw |-> TRUE, file |-> f]

\* removeServer(name): what it returns and the file afterwards; delete
\* removes an own property and nothing else
RemoveServer(f, name) ==
  IF ~HasServers(LoadMcpConfig(f)) THEN [threw |-> TRUE, returned |-> FALSE, file |-> f]
  ELSE IF Truthy(Lookup(LoadMcpConfig(f), name))
  THEN [threw |-> FALSE, returned |-> TRUE,
        file |-> SaveMcpConfig([LoadMcpConfig(f) EXCEPT !.mcpServers[name] = Undefined])]
  ELSE [threw |-> FALSE, returned |-> FALSE, file |-> f]

\* setDefaultModel(model): the file afterwards (defaultModel is set on
\* whatever object was loaded)
SetDefaultModel(f, model) ==
  SaveMcpConfig([LoadMcpConfig(f) EXCEPT !.defaultModel = model])

\* the last call of a ConfigManager method and the file it found
NoCall == [op |-> "none", name |-> "", arg |-> Undefined, before |-> EmptyConfig,
           threw |-> FALSE, returned |-> FALSE, value |-> Undefined]

session == <<limits, hasApiKey, apiKey, serverNames, reachable, pc, i, userInput, history,
             startup, turns, llm, pending, start>>

CallAddServer ==
  /\ mcp.status = "config"
  /\ \E name \in ServerKeys, serverConfig \in ServerConfigs :
       /\ file' = AddServer(file, name, serverConfig).file
       /\ mcp' = [mcp EXCEPT !.last =
                    [NoCall EXCEPT !.op = "addServer", !.name = name, !.arg = serverConfig,
                                   !.before = file,
                                   !.threw = AddServer(file, name, serverConfig).threw]]
  /\ UNCHANGED session

CallRemoveServer ==
  /\ mcp.status = "config"
  /\ \E name \in ServerKeys :
       /\ file' = RemoveServer(file, name).file
       /\ mcp' = [mcp EXCEPT !.last =
                    [NoCall EXCEPT !.op = "removeServer", !.name = name, !.before = file,
                                   !.threw = RemoveServer(file, name).threw,
                                   !.returned = RemoveServer(file, name).returned]]
  /\ UNCHANGED session

CallGetServer ==
  /\ mcp.status = "config"
  /\ \E name \in ServerKeys :
       mcp' = [mcp EXCEPT !.last =
                 [NoCall EXCEPT !.op = "getServer", !.name = name, !.before = file,
                                !.threw = GetServer(file, name).threw,
                                !.value = GetServer(file, name).value]]
  /\ UNCHANGED <<session, file>>

CallSetDefaultModel ==
  /\ mcp.status = "config"
  /\ \E model \in ModelIds :
       /\ file' = SetDefaultModel(file, model)
       /\ mcp' = [mcp EXCEPT !.last =
                    [NoCall EXCEPT !.op = "setDefaultModel", !.name = model, !.before = file]]
  /\ UNCHANGED session

InitConfig ==
  /\ InitSession
  /\ limits = [turns |-> MaxTurns, batch |-> MaxBatch]
  /\ hasApiKey
  /\ apiKey
  /\ serverNames = ConfigOrder
  /\ reachable = ServerSet
  /\ start = NotStarted
  /\ file \in ConfigFiles
  /\ mcp = [status |-> "config", last |-> NoCall]

NextConfig ==
  \/ CallAddServer
  \/ CallRemoveServer
  \/ CallGetServer
  \/ CallSetDefaultModel

SpecConfig == InitConfig /\ [][NextConfig]_vars

\* ---------------------------------------------------------------- C33
\* name is one of the configured servers of the file that a call found
Configured(f, name) == f.text = "config" /\ f.mcpServers[name] # Undefined

\* C33 as stated: addServer(n, c) stores c under n and leaves every other
\* entry and the default model as they were; removeServer(n) returns true
\* exactly when n was configured, after which getServer(n) is undefined, and
\* returns false with the file unchanged when n was not configured
C33_ServerOperationsRoundTrip ==
  mcp.status = "config" =>
    /\ mcp.last.op = "addServer" =>
         /\ ~mcp.last.threw
         /\ ~GetServer(file, mcp.last.name).threw
         /\ GetServer(file, mcp.last.name).value = mcp.last.arg
         /\ \A other \in ServerKeys \ {mcp.last.name} :
              file.mcpServers[other] = mcp.last.before.mcpServers[other]
         /\ file.defaultModel = mcp.last.before.defaultModel
    /\ mcp.last.op = "removeServer" =>
         /\ ~mcp.last.threw
         /\ mcp.last.returned = Configured(mcp.last.before, mcp.last.name)
         /\ mcp.last.returned =>
              /\ ~GetServer(file, mcp.last.name).threw
              /\ GetServer(file, mcp.last.name).value = Undefined
         /\ ~mcp.last.returned => file = mcp.last.before

\* ------------------------------------------------------- McpConnection
\* One McpConnection whose methods are called one after the other, each
\* call awaited, over a configuration file that does not change meanwhile.
\* client and childProcess tell whether the fields are non-null; live tells
\* whether the transport of the client is connected (known to the SDK
\* only); connected and lastConnect record what the calls have returned.
SdkErrorMsg == "<error raised by the SDK client>"
TransportOutcomes == {"connects", "fails"}

\* new URL(serverConfig.url) throws a TypeError
InvalidUrl(url) == url = "not a url"

\* the branch of connect() that the configuration selects
Transport(serverConfig) ==
  IF serverConfig.command # "" /\ serverConfig.url = "" THEN "stdio"
  ELSE IF serverConfig.url # "" THEN "sse"
  ELSE "none"

NoOutcome == [op |-> "none", threw |-> FALSE, success |-> FALSE, transport |-> "none",
              created |-> FALSE, outcome |-> "", error |-> ""]

NewConnection(serverName) ==
  [status |-> "connection", serverName |-> serverName, client |-> FALSE,
   childProcess |-> FALSE, live |-> FALSE, connected |-> FALSE, lastConnect |-> "none",
   last |-> NoOutcome]

\* connect() returning { success: false } before any client is created
Refused(m, transport) ==
  [m EXCEPT !.lastConnect = "failure",
            !.last = [NoOutcome EXCEPT !.op = "connect", !.transport = transport]]

\* connect(): configManager.getServer is called outside the try block; the
\* client is assigned before client.connect(transport) is awaited, and the
\* catch block returns without touching it
McpConnect(m, f, outcome) ==
  LET found == GetServer(f, m.serverName)
      serverConfig == found.value
  IN IF found.threw
     THEN [m EXCEPT !.last = [NoOutcome EXCEPT !.op = "connect", !.threw = TRUE]]
     ELSE IF ~Truthy(serverConfig) THEN Refused(m, "none")
     ELSE IF Transport(serverConfig) = "none" THEN Refused(m, "none")
     ELSE IF Transport(serverConfig) = "sse" /\ InvalidUrl(serverConfig.url)
     THEN Refused(m, "sse")
     ELSE IF outcome = "fails"
     THEN [m EXCEPT !.client = TRUE, !.live = FALSE, !.lastConnect = "failure",
                    !.last = [NoOutcome EXCEPT !.op = "connect", !.created = TRUE,
                                               !.transport = Transport(serverConfig),
                                               !.outcome = outcome]]
     ELSE [m EXCEPT !.client = TRUE, !.live = TRUE, !.connected = TRUE,
                    !.lastConnect = "success",
                    !.childProcess = IF Transport(serverConfig) = "stdio" THEN TRUE ELSE @,
                    !.last = [NoOutcome EXCEPT !.op = "connect", !.created = TRUE,
                                               !.success = TRUE,
                                               !.transport = Transport(serverConfig),
                                               !.outcome = outcome]]

\* disconnect(): a client.close() that rejects leaves the method at once
McpDisconnect(m, closeOk) ==
  IF m.client /\ ~closeOk
  THEN [m EXCEPT !.last = [NoOutcome EXCEPT !.op = "disconnect", !.threw = TRUE,
                                            !.error = SdkErrorMsg]]
  ELSE [m EXCEPT !.client = FALSE, !.live = FALSE, !.childProcess = FALSE,
                 !.connected = FALSE, !.lastConnect = "none",
                 !.last = [NoOutcome EXCEPT !.op = "disconnect"]]

\* callTool(): the not-connected Error without a client; otherwise whatever
\* client.callTool does, whose errors are rethrown (a client whose transport
\* never connected cannot answer)
McpCallTool(m, answers) ==
  IF ~m.client
  THEN [m EXCEPT !.last = [NoOutcome EXCEPT !.op = "callTool", !.threw = TRUE,
                                            !.error = NotConnectedMsg]]
  ELSE IF ~m.live \/ ~answers
  THEN [m EXCEPT !.last = [NoOutcome EXCEPT !.op = "callTool", !.threw = TRUE,
                                            !.error = SdkErrorMsg]]
  ELSE [m EXCEPT !.last = [NoOutcome EXCEPT !.op = "callTool"]]

CallConnect ==
  /\ mcp.status = "connection"
  /\ \E outcome \in TransportOutcomes : mcp' = McpConnect(mcp, file, outcome)
  /\ UNCHANGED <<session, file>>

CallDisconnect ==
  /\ mcp.status = "connection"
  /\ \E closeOk \in BOOLEAN : mcp' = McpDisconnect(mcp, closeOk)
  /\ UNCHANGED <<session, file>>

CallCallTool ==
  /\ mcp.status = "connection"
  /\ \E answers \in BOOLEAN : mcp' = McpCallTool(mcp, answers)
  /\ UNCHANGED <<session, file>>

InitConnection ==
  /\ InitSession
  /\ limits = [turns |-> MaxTurns, batch |-> MaxBatch]
  /\ hasApiKey
  /\ apiKey
  /\ serverNames = ConfigOrder
  /\ reachable = ServerSet
  /\ start = NotStarted
  /\ file \in ConfigFiles
  /\ mcp \in {NewConnection(n) : n \in ServerKeys}

NextConnection ==
  \/ CallConnect
  \/ CallDisconnect
  \/ CallCallTool

SpecConnection == InitConnection /\ [][NextConnection]_vars

\* ---------------------------------------------------------------- C32
\* what the configuration file says about the server of the connection
Entry == IF file.text = "config" THEN file.mcpServers[mcp.serverName] ELSE Undefined

\* C32 as stated: connect() never throws; it takes the SSE transport if the
\* configuration has a url, stdio if it has a command and no url, returns
\* success false without creating a client if the server is not configured
\* or has neither, and returns success false if the transport fails
C32_ConnectReportsByValue ==
  (mcp.status = "connection" /\ mcp.last.op = "connect") =>
    /\ ~mcp.last.threw
    /\ Entry.url # "" => mcp.last.transport = "sse"
    /\ (Entry.command # "" /\ Entry.url = "") => mcp.last.transport = "stdio"
    /\ (Entry = Undefined \/ (Entry.command = "" /\ Entry.url = "")) =>
         ~mcp.last.success /\ ~mcp.last.created
    /\ mcp.last.outcome = "fails" => ~mcp.last.success

\* ---------------------------------------------------------------- C34
\* C34 as stated: the client is non-null exactly while the connection is
\* connected (connect() has returned success true and no disconnect() has
\* completed since); after a connect() that returned success false the
\* client is null and callTool fails with the not-connected error
C34_ClientOnlyWhileConnected ==
  mcp.status = "connection" =>
    /\ mcp.client <=> mcp.connected
    /\ mcp.lastConnect = "failure" =>
         /\ ~mcp.client
         /\ mcp.last.op = "callTool" =>
              mcp.last.threw /\ mcp.last.error = NotConnectedMsg

====
